---- MODULE Spec2Model ----
(***************************************************************************)
(* Model of the atomix go-client log primitive (pkg/client/log) and of the *)
(* session coordination layer it drives.  The log primitive, its session   *)
(* handler and the watch relay are translated from pkg/client/log; the     *)
(* session package itself (session.New, DoCommand, DoQuery,                *)
(* DoCommandStream, DoKeepAlive, DoClose) is not part of the sources and   *)
(* is modelled from the specification of the Session Coordination Layer.   *)
(***************************************************************************)
EXTENDS Integers, Sequences, FiniteSets, TLC

(* ------------------------------ bounds --------------------------------- *)
\* highest sequence number the model lets the session assign
MaxSeq == 2
\* response indexes range over 0..MaxIndex
MaxIndex == 1
\* number of events the server pushes on a watch stream
MaxEvents == 3
\* largest capacity of the consumer's channel (0 = unbuffered)
MaxChCap == 1

\* primitive names are strings of at most MaxNameLen characters 0..MaxChar
MaxNameLen == 2
MaxChar == 2
\* New is given at most MaxPartitions partitions
MaxPartitions == 3

\* session timeouts range over 2..MaxTimeout time units of ten seconds
MaxTimeout == 6
\* the time the timed specification lets pass
Horizon == 9

\* applyOptions is given at most MaxOpts options
MaxOpts == 3

\* the foreground caller tasks that share the log handle
Callers == {"a", "b"}
Nil == "nil"

(* ------------------------------ state ---------------------------------- *)
VARIABLES
    state,            \* Session lifecycle state
    closeReason,      \* why the session is Closed: "none", "closed", "expired"
    sessionID,        \* Session identifier, 0 until the create handshake
    sequenceNumber,   \* Session sequence counter
    lastIndex,        \* Session last observed index
    ticker,           \* TRUE while the Keepalive Driver is running
    deleting,         \* TRUE when the close in progress is a delete
    closeRequest,     \* the CloseRequest handed to the transport
    log,              \* the *log handle: "none", "handle", "failed"
    calls,            \* position of each caller task inside DoCommand/DoQuery
                      \* (attempt: 1 = first transport call, 2 = a retry)
    results,          \* what each caller's last log operation returned
    assigned,         \* history: sequence numbers taken by commands, in order
    highest,          \* history: highest index of a successful response header
    closedSends,      \* history: TRUE if a request went out on a closed session
    keepAliveErr,     \* the error the last keepalive tick returned
    keepAliveStale,   \* history: TRUE if a keepalive request carried a
                      \* sequence number other than the session's counter
    watch,            \* the Watch call: "none", "failed", "open"
    watchErr,         \* the error Watch returned
    ctxDone,          \* TRUE once the watch context is cancelled
    streamPc,         \* session stream task: "none", "recv", "publish", "done"
    streamMsg,        \* message the session stream task is publishing
    streamClosed,     \* TRUE once the session closed the stream channel
    received,         \* history: responses returned by recvFn, in order
    relayPc,          \* relay goroutine: "none", "range", "send", "done"
    relayMsg,         \* event the relay is sending on ch
    chCap,            \* capacity of the consumer's channel ch
    ch,               \* buffered content of ch
    chCloses,         \* number of close(ch) executed
    delivered,        \* history: events sent on ch, in order
    sentAfterClose,   \* history: TRUE if an event was sent on ch after close
    consumed,         \* history: events the consumer received from ch
    sawClose,         \* TRUE once the consumer observed ch closed
    consumerStopped,  \* TRUE once the consumer stopped reading ch
    name,             \* the primitive name given to New
    partitions,       \* len(partitions) given to New
    partition,        \* index of the partition the session is opened on
    newErr,           \* the error New returned
    creates,          \* history: number of create calls issued
    clock,            \* time elapsed since the session became Open
    timeout,          \* the session timeout
    interval,         \* the Keepalive Driver's tick interval
    lastTick,         \* time of the last keepalive tick (0: session opened)
    keepAlives,       \* history: number of keepalive calls issued
    optEnv,           \* the value of ATOMIX_SCOPE in the environment
    opts,             \* the options given to applyOptions
    options           \* the databaseOptions applyOptions returned

sessionVars == <<state, closeReason, sessionID, sequenceNumber, lastIndex,
                 ticker, deleting, closeRequest, log>>
callVars == <<calls, results>>
histVars == <<assigned, highest, closedSends, keepAliveErr,
              keepAliveStale>>
watchVars == <<watch, watchErr, ctxDone, streamPc, streamMsg,
               streamClosed, received, relayPc, relayMsg, chCap, ch,
               chCloses, delivered, sentAfterClose, consumed, sawClose,
               consumerStopped>>
openVars == <<name, partitions, partition, newErr, creates>>
timeVars == <<clock, timeout, interval, lastTick, keepAlives>>
optVars == <<optEnv, opts, options>>
vars == <<sessionVars, callVars, histVars, watchVars, openVars, timeVars,
          optVars>>

(* ------------------------- transport (environment) --------------------- *)
\* api.ResponseStatus values a response body can carry; "NOOP" stands for
\* every status other than the three the log primitive names
Statuses == {"OK", "PRECONDITION_FAILED", "WRITE_LOCK", "NOOP"}

\* header status values: success, or the definitive session unknown/expired
HeaderStatuses == {"OK", "SESSION_EXPIRED"}

\* what a unary transport call can produce: a transport error with no
\* response, or a response with a header and a body. version stands for the
\* Version or PreviousVersion field of the operation's response type
Replies ==
    [err : {"transport"}]
    \cup [err : {Nil},
          header : [status : {"SESSION_EXPIRED"}, index : {0}],
          status : {"OK"}, version : {0}]
    \cup [err : {Nil},
          header : [status : {"OK"}, index : 0..MaxIndex],
          status : Statuses, version : 0..1]

\* replies to an Append: PreviousVersion is read for no status but "NOOP"
AppendReplies ==
    {r \in Replies : (r.err = Nil /\ r.status # "NOOP") => r.version = 0}

\* replies to a Remove: PreviousVersion is read for status "OK" alone
RemoveReplies ==
    {r \in Replies : (r.err = Nil /\ r.status # "OK") => r.version = 0}

\* replies to a Get: a GetResponse has a Version and no Status
GetReplies == {r \in Replies : r.err = Nil => r.status = "OK"}

RepliesTo(op) ==
    CASE op = "Append" -> AppendReplies
      [] op = "Remove" -> RemoveReplies
      [] op = "Get" -> GetReplies

\* replies to create, keepalive and close calls, whose body carries nothing
HeaderReplies == {r \in Replies : r.err = Nil => r.status = "OK" /\ r.version = 0}

Max(a, b) == IF a >= b THEN a ELSE b

(* --------------------------- log primitive ----------------------------- *)
\* a zero-valued request header
NoHeader == [sessionID |-> 0, seq |-> 0, index |-> 0]

\* the log operations the callers of the model issue: a command and a query
Ops == {"Append", "Get"}

\* SessionCall with Get issued through DoCommand, like Append and Remove
SessionCallAllCommands(op) == "DoCommand"

\* which session entry point each log operation calls
SessionCall(op) ==
    CASE op = "Append" -> "DoCommand"
      [] op = "Get" -> "DoQuery"
      [] op = "Remove" -> "DoCommand"

\* LogRequest with the Header field of the request left unset
LogRequestNoHeader(op, header) ==
    [op |-> op, header |-> NoHeader]

\* the request a log operation's closure builds around the header it is given
LogRequest(op, header) ==
    [op |-> op, header |-> header]

\* HandlerReturn with a response whose status reports a failure returned as
\* an error of the call
HandlerReturnStatusAsError(reply) ==
    IF reply.err # Nil
    THEN [err |-> reply.err]
    ELSE IF reply.status \in {"PRECONDITION_FAILED", "WRITE_LOCK"}
    THEN [err |-> "failed"]
    ELSE [header |-> reply.header, response |-> reply, err |-> Nil]

\* HandlerReturn with the header of the request (its index is the one the
\* session already has) returned in place of response.Header
HandlerReturnRequestHeader(reply) ==
    IF reply.err # Nil
    THEN [err |-> reply.err]
    ELSE [header |-> [status |-> reply.header.status, index |-> 0],
          response |-> reply, err |-> Nil]

\* what a log operation's closure returns for a transport reply:
\* (response.Header, response, nil), or (nil, nil, err)
HandlerReturn(reply) ==
    IF reply.err # Nil
    THEN [err |-> reply.err]
    ELSE [header |-> reply.header, response |-> reply, err |-> Nil]

\* a nil *Entry, and an Entry (Index, Value and Timestamp are copied through
\* from the response and are left out)
NilEntry == [isNil |-> TRUE, version |-> 0]
Entry(version) == [isNil |-> FALSE, version |-> version]

NoResult == [entry |-> NilEntry, err |-> Nil, done |-> FALSE]
Failed(e) == [entry |-> NilEntry, err |-> e, done |-> TRUE]
Returned(entry, e) == [entry |-> entry, err |-> e, done |-> TRUE]

\* AppendResult with the last branch of Remove: (nil, nil) for a status
\* other than the three named ones
AppendResultLikeRemove(response) ==
    IF response.status = "OK"
    THEN Returned(Entry(response.header.index), Nil)
    ELSE IF response.status = "PRECONDITION_FAILED"
    THEN Returned(NilEntry, "write condition failed")
    ELSE IF response.status = "WRITE_LOCK"
    THEN Returned(NilEntry, "write lock failed")
    ELSE Returned(NilEntry, Nil)

AppendResult(response) ==
    IF response.status = "OK"
    THEN Returned(Entry(response.header.index), Nil)
    ELSE IF response.status = "PRECONDITION_FAILED"
    THEN Returned(NilEntry, "write condition failed")
    ELSE IF response.status = "WRITE_LOCK"
    THEN Returned(NilEntry, "write lock failed")
    ELSE Returned(Entry(response.version), Nil)

RemoveResult(response) ==
    IF response.status = "OK"
    THEN Returned(Entry(response.version), Nil)
    ELSE IF response.status = "PRECONDITION_FAILED"
    THEN Returned(NilEntry, "write condition failed")
    ELSE IF response.status = "WRITE_LOCK"
    THEN Returned(NilEntry, "write lock failed")
    ELSE Returned(NilEntry, Nil)

GetResult(response) ==
    IF response.version # 0
    THEN Returned(Entry(response.version), Nil)
    ELSE Returned(NilEntry, Nil)

\* LogResult with the error of the session call dropped
LogResultDropsError(op, r, err) ==
    IF err # Nil THEN Returned(NilEntry, Nil)
    ELSE CASE op = "Append" -> AppendResult(r)
           [] op = "Remove" -> RemoveResult(r)
           [] op = "Get" -> GetResult(r)

\* what the log operation returns once the session call returned (r, err)
LogResult(op, r, err) ==
    IF err # Nil THEN Failed(err)
    ELSE CASE op = "Append" -> AppendResult(r)
           [] op = "Remove" -> RemoveResult(r)
           [] op = "Get" -> GetResult(r)

\* KeepAliveRequest with the Header field left unset
KeepAliveRequestNoHeader(header) == [header |-> NoHeader]

\* the KeepAliveRequest sessionHandler.KeepAlive builds around the header
\* it is given
KeepAliveRequest(header) == [header |-> header]

\* no CloseRequest was built
NoCloseRequest == [sent |-> FALSE, delete |-> FALSE]

\* CloseRequest with the Delete field left unset
CloseRequestNoDelete(delete) == [sent |-> TRUE, delete |-> FALSE]

\* the CloseRequest sessionHandler.Close (delete = FALSE) and
\* sessionHandler.Delete (delete = TRUE) build
CloseRequest(delete) == [sent |-> TRUE, delete |-> delete]

(* ------------------- session (modelled from the spec) ------------------ *)
\* TRUE once a close was requested or the session was forced to Closed:
\* calls are failed instead of being handed to the transport
IsClosed == state \in {"Closing", "Closed", "Deleted"}

\* SessionError with one condition for every closed session
SessionErrorAlwaysClosed == "SessionClosed"

\* the condition a call on a closed session fails with
SessionError ==
    IF closeReason = "expired" THEN "SessionExpired" ELSE "SessionClosed"

\* header of a new command: the next sequence number, the last observed index
CommandHeader ==
    [sessionID |-> sessionID, seq |-> sequenceNumber + 1, index |-> lastIndex]

\* header of a query: no sequence number, the last observed index
QueryHeader ==
    [sessionID |-> sessionID, seq |-> 0, index |-> lastIndex]

\* header of a keepalive: the current sequence number, consumed by nobody
KeepAliveHeader ==
    [sessionID |-> sessionID, seq |-> sequenceNumber, index |-> lastIndex]

\* the sequence counter after a command, and after a query, took its header
SequenceAfterCommand == sequenceNumber + 1
SequenceAfterQuery == sequenceNumber

\* the last observed index after a response header was recorded
RecordResponse(header) == Max(lastIndex, header.index)

\* KeepAliveState with a failed keepalive closing the session
KeepAliveStateClosesOnFailure(ret) ==
    IF ret.err = Nil /\ ret.header.status = "OK" THEN state ELSE "Closed"

\* the lifecycle state after a keepalive call returned ret: unchanged,
\* whether the call failed or not
KeepAliveState(ret) == state

\* the header a retry of a call carries: the one of its first attempt
RetryHeader(call) == call.header

NoRequest == [op |-> Nil, header |-> NoHeader]
Idle == [pc |-> "idle", op |-> Nil, header |-> NoHeader, attempt |-> 0,
         request |-> NoRequest, firstSeq |-> 0, seen |-> 0]

\* TRUE when a request handed to the transport goes out on a closed session
OnClosed == state \in {"Closed", "Deleted"}

(* ------------------------- database options --------------------------- *)
\* the default session timeout, 1 * time.Minute, in seconds
DefaultSessionTimeout == 60

\* the scopes and the durations (seconds) of the model
Scopes == {"", "x", "y"}
Durations == {0, 60, 90}

\* WithScope(scope) and WithSessionTimeout(timeout): the Option each builds
WithScope(scope) == [kind |-> "scopeOption", scope |-> scope]
WithSessionTimeout(t) == [kind |-> "sessionTimeoutOption", timeout |-> t]

Options ==
    {WithScope(scope) : scope \in Scopes}
    \cup {WithSessionTimeout(t) : t \in Durations}

\* the argument lists of applyOptions: at most MaxOpts options
OptionLists == UNION {[1..n -> Options] : n \in 0..MaxOpts}

\* scopeOption.apply and sessionTimeoutOption.apply
scopeOptionApply(o, dbOptions) == [dbOptions EXCEPT !.scope = o.scope]
sessionTimeoutOptionApply(o, dbOptions) ==
    [dbOptions EXCEPT !.sessionTimeout = o.timeout]

\* opt.apply(options), dispatched on the type of the option
OptionApply(o, dbOptions) ==
    IF o.kind = "scopeOption" THEN scopeOptionApply(o, dbOptions)
    ELSE sessionTimeoutOptionApply(o, dbOptions)

\* for _, opt := range opts { opt.apply(options) }
RECURSIVE ApplyEach(_, _)
ApplyEach(os, dbOptions) ==
    IF os = <<>> THEN dbOptions
    ELSE ApplyEach(Tail(os), OptionApply(Head(os), dbOptions))

\* applyOptions with the default session timeout set after the loop
applyOptionsDefaultLast(env, os) ==
    [ApplyEach(os, [scope |-> env, sessionTimeout |-> 0])
       EXCEPT !.sessionTimeout = DefaultSessionTimeout]

\* applyOptions: the options applied in order onto the defaults
applyOptions(env, os) ==
    ApplyEach(os, [scope |-> env, sessionTimeout |-> DefaultSessionTimeout])

\* applyOptions was not called
NoOptions == [scope |-> "", sessionTimeout |-> 0, done |-> FALSE]
NoOptionsApplied == optEnv = "" /\ opts = <<>> /\ options = NoOptions

\* a call of applyOptions returns
ApplyOptions ==
    /\ ~options.done
    /\ LET ret == applyOptions(optEnv, opts) IN
         options' = [scope |-> ret.scope,
                     sessionTimeout |-> ret.sessionTimeout, done |-> TRUE]
    /\ UNCHANGED <<sessionVars, callVars, histVars, watchVars, openVars,
                   timeVars, optEnv, opts>>

(* ------------------------------ Init ----------------------------------- *)
NoWatch ==
    /\ watch = "none" /\ watchErr = Nil /\ ctxDone = FALSE
    /\ streamPc = "none" /\ streamMsg = <<>>
    /\ streamClosed = FALSE /\ received = <<>>
    /\ relayPc = "none" /\ relayMsg = <<>>
    /\ chCap = 0 /\ ch = <<>> /\ chCloses = 0
    /\ delivered = <<>> /\ sentAfterClose = FALSE
    /\ consumed = <<>> /\ sawClose = FALSE /\ consumerStopped = FALSE

\* no time has passed and no keepalive was counted
Untimed ==
    /\ clock = 0 /\ timeout = 0 /\ interval = 0
    /\ lastTick = 0 /\ keepAlives = 0

Init ==
    /\ state = "Unopened" /\ closeReason = "none" /\ sessionID = 0
    /\ sequenceNumber = 0 /\ lastIndex = 0 /\ ticker = FALSE
    /\ deleting = FALSE /\ closeRequest = NoCloseRequest
    /\ log = "none"
    /\ calls = [c \in Callers |-> Idle]
    /\ results = [c \in Callers |-> NoResult]
    /\ assigned = <<>> /\ highest = 0 /\ closedSends = FALSE
    /\ keepAliveErr = Nil /\ keepAliveStale = FALSE
    /\ NoWatch
    /\ name = <<>> /\ partitions = 0 /\ partition = 0
    /\ newErr = Nil /\ creates = 0
    /\ Untimed
    /\ NoOptionsApplied

(* ------------------------- session lifecycle --------------------------- *)
\* the characters and the names of the model
Chars == 0..MaxChar
Names == UNION {[1..n -> Chars] : n \in 0..MaxNameLen}

\* a hash of a name: h = (h * 31 + c + 1) mod 2^8 over its characters
RECURSIVE Hash(_)
Hash(n) ==
    IF n = <<>> THEN 7
    ELSE (Hash(SubSeq(n, 1, Len(n) - 1)) * 31 + n[Len(n)] + 1) % 256

\* GetPartitionIndex with the index taken modulo count + 1
GetPartitionIndexOffByOne(n, count) ==
    IF count < 0
    THEN [err |-> "InvalidArgument", index |-> 0]
    ELSE [err |-> Nil, index |-> Hash(n) % (count + 1)]

\* util.GetPartitionIndex (selectPartition): the hash of the name modulo
\* the number of partitions; InvalidArgument for a count that is not positive
GetPartitionIndex(n, count) ==
    IF count <= 0
    THEN [err |-> "InvalidArgument", index |-> 0]
    ELSE [err |-> Nil, index |-> Hash(n) % count]

\* New with the Log handed to the caller as soon as the create call is
\* issued, before it returned
NewReturnsEarly(n, count) ==
    /\ state = "Unopened" /\ log = "none"
    /\ name' = n /\ partitions' = count
    /\ LET i == GetPartitionIndex(n, count) IN
       IF i.err # Nil
       THEN /\ log' = "failed"
            /\ newErr' = i.err
            /\ UNCHANGED <<state, partition, creates>>
       ELSE /\ state' = "Opening"
            /\ log' = "handle"
            /\ partition' = i.index
            /\ creates' = creates + 1
            /\ UNCHANGED newErr
    /\ UNCHANGED <<closeReason, sessionID, sequenceNumber, lastIndex, ticker,
                   deleting, closeRequest, callVars, histVars, watchVars,
                   timeVars, optVars>>

\* New with the error of GetPartitionIndex ignored: the session is opened on
\* the index returned with it
NewIgnoresIndexError(n, count) ==
    /\ state = "Unopened" /\ log = "none"
    /\ name' = n /\ partitions' = count
    /\ state' = "Opening"
    /\ partition' = GetPartitionIndex(n, count).index
    /\ creates' = creates + 1
    /\ UNCHANGED <<closeReason, sessionID, sequenceNumber, lastIndex, ticker,
                   deleting, closeRequest, log, newErr, callVars, histVars,
                   watchVars, timeVars, optVars>>

\* log.New(ctx, name, partitions): the partition index is computed from the
\* name; on error New returns (nil, err); otherwise newLog -> session.New:
\* the session starts opening on partitions[i] and the create call is
\* handed to the transport
New(n, count) ==
    /\ state = "Unopened" /\ log = "none"
    /\ name' = n /\ partitions' = count
    /\ LET i == GetPartitionIndex(n, count) IN
       IF i.err # Nil
       THEN /\ log' = "failed"
            /\ newErr' = i.err
            /\ UNCHANGED <<state, partition, creates>>
       ELSE /\ state' = "Opening"
            /\ partition' = i.index
            /\ creates' = creates + 1
            /\ UNCHANGED <<log, newErr>>
    /\ UNCHANGED <<closeReason, sessionID, sequenceNumber, lastIndex, ticker,
                   deleting, closeRequest, callVars, histVars, watchVars, timeVars, optVars>>

\* CreateDone with the error of session.New ignored by newLog: the caller is
\* handed a Log whatever the create call returned
CreateDoneIgnoresError(reply) ==
    /\ state = "Opening"
    /\ LET ret == HandlerReturn(reply) IN
       IF ret.err = Nil /\ ret.header.status = "OK"
       THEN /\ state' = "Open"
            /\ sessionID' = 1
            /\ lastIndex' = RecordResponse(ret.header)
            /\ highest' = Max(highest, reply.header.index)
            /\ ticker' = TRUE
       ELSE /\ state' = "Unopened"
            /\ UNCHANGED <<sessionID, lastIndex, highest, ticker>>
    /\ log' = "handle"
    /\ UNCHANGED <<closeReason, sequenceNumber, deleting, closeRequest, callVars, assigned,
                   closedSends, keepAliveErr, keepAliveStale, watchVars, openVars, timeVars, optVars>>

\* sessionHandler.Create returns: on success the session records its
\* identifier, becomes Open and the Keepalive Driver starts; on failure
\* newLog returns (nil, err)
CreateDone(reply) ==
    /\ state = "Opening"
    /\ LET ret == HandlerReturn(reply) IN
       IF ret.err = Nil /\ ret.header.status = "OK"
       THEN /\ state' = "Open"
            /\ sessionID' = 1
            /\ lastIndex' = RecordResponse(ret.header)
            /\ highest' = Max(highest, reply.header.index)
            /\ ticker' = TRUE
            /\ log' = "handle"
            /\ UNCHANGED newErr
       ELSE /\ state' = "Unopened"
            /\ log' = "failed"
            /\ newErr' = (IF ret.err # Nil THEN ret.err ELSE ret.header.status)
            /\ UNCHANGED <<sessionID, lastIndex, highest, ticker>>
    /\ UNCHANGED <<closeReason, sequenceNumber, deleting, closeRequest, callVars, assigned,
                   closedSends, keepAliveErr, keepAliveStale, watchVars, name, partitions,
                   partition, creates, timeVars, optVars>>

\* Close with the close call issued again on a session that is Closed
CloseAgain(delete) ==
    /\ log = "handle" /\ state \in {"Open", "Closed"}
    /\ state' = "Closing"
    /\ ticker' = FALSE
    /\ deleting' = delete
    /\ closeRequest' = CloseRequest(delete)
    /\ UNCHANGED <<closeReason, sessionID, sequenceNumber, lastIndex, log,
                   callVars, histVars, watchVars, openVars, timeVars, optVars>>

\* log.Close / log.Delete -> sessionHandler.Close / Delete -> DoClose:
\* the session is Closing, the close call is sent, the driver is stopped
Close(delete) ==
    /\ log = "handle" /\ state = "Open"
    /\ state' = "Closing"
    /\ ticker' = FALSE
    /\ deleting' = delete
    /\ closeRequest' = CloseRequest(delete)
    /\ UNCHANGED <<closeReason, sessionID, sequenceNumber, lastIndex, log,
                   callVars, histVars, watchVars, openVars, timeVars, optVars>>

\* the close call returns, with or without an error
CloseDone(reply) ==
    /\ state = "Closing"
    /\ state' = IF deleting THEN "Deleted" ELSE "Closed"
    /\ closeReason' = "closed"
    /\ UNCHANGED <<sessionID, sequenceNumber, lastIndex, ticker, deleting, closeRequest,
                   log, callVars, histVars, watchVars, openVars, timeVars, optVars>>

(* --------------------------- keepalive --------------------------------- *)
\* sessionHandler.KeepAlive -> DoKeepAlive, the call one tick of the
\* Keepalive Driver makes.  A successful response is recorded; a failure is
\* surfaced as the tick's error and changes nothing else
KeepAliveCall(reply) ==
    /\ ticker /\ state = "Open"
    /\ closedSends' = (closedSends \/ OnClosed)
    /\ keepAliveStale' =
         (keepAliveStale
          \/ KeepAliveRequest(KeepAliveHeader).header.seq # sequenceNumber)
    /\ LET ret == HandlerReturn(reply) IN
       IF ret.err = Nil /\ ret.header.status = "OK"
       THEN /\ lastIndex' = RecordResponse(ret.header)
            /\ highest' = Max(highest, reply.header.index)
            /\ keepAliveErr' = Nil
       ELSE /\ keepAliveErr' = "failed"
            /\ UNCHANGED <<lastIndex, highest>>
    /\ state' = KeepAliveState(HandlerReturn(reply))
    /\ UNCHANGED <<closeReason, sessionID, sequenceNumber, ticker,
                   deleting, closeRequest, log, callVars, assigned, watchVars, openVars>>

\* one tick of the Keepalive Driver, at a time the model leaves open
KeepAlive(reply) ==
    /\ KeepAliveCall(reply)
    /\ UNCHANGED <<timeVars, optVars>>

\* KeepAliveInterval with the session timeout itself as the interval
KeepAliveIntervalIsTimeout(t) == t

\* the tick interval the Keepalive Driver derives from the session timeout:
\* a third of it, and one time unit at least
KeepAliveInterval(t) == Max(1, t \div 3)

\* one tick of the Keepalive Driver when its timer fires, an interval after
\* the previous tick
KeepAliveTick(reply) ==
    /\ clock = lastTick + interval
    /\ KeepAliveCall(reply)
    /\ lastTick' = clock
    /\ keepAlives' = keepAlives + 1
    /\ UNCHANGED <<clock, interval, timeout, optVars>>

\* one unit of time passes; a timer that is due fires first
Tick ==
    /\ clock < Horizon
    /\ (ticker /\ state = "Open") => clock < lastTick + interval
    /\ clock' = clock + 1
    /\ UNCHANGED <<sessionVars, callVars, histVars, watchVars, openVars,
                   interval, timeout, lastTick, keepAlives, optVars>>

(* ----------------------- commands and queries -------------------------- *)
\* the call record of a caller whose first attempt is on the wire
Dispatched(op, header) ==
    [pc |-> "inflight", op |-> op, header |-> header, attempt |-> 1,
     request |-> LogRequest(op, header),
     firstSeq |-> LogRequest(op, header).header.seq, seen |-> highest]

\* a caller enters a log operation.  On a closed session DoCommand and
\* DoQuery fail at once; otherwise DoCommand takes the next sequence number,
\* DoQuery takes none, and the first attempt goes out
Invoke(c, op) ==
    /\ log = "handle"
    /\ calls[c].pc = "idle"
    /\ IF IsClosed
       THEN /\ results' = [results EXCEPT ![c] = LogResult(op, Nil, SessionError)]
            /\ UNCHANGED <<calls, sequenceNumber, assigned, closedSends>>
       ELSE IF SessionCall(op) = "DoCommand"
       THEN /\ sequenceNumber < MaxSeq
            /\ sequenceNumber' = SequenceAfterCommand
            /\ assigned' = Append(assigned, CommandHeader.seq)
            /\ calls' = [calls EXCEPT ![c] = Dispatched(op, CommandHeader)]
            /\ results' = [results EXCEPT ![c] = NoResult]
            /\ closedSends' = (closedSends \/ OnClosed)
       ELSE /\ sequenceNumber' = SequenceAfterQuery
            /\ calls' = [calls EXCEPT ![c] = Dispatched(op, QueryHeader)]
            /\ results' = [results EXCEPT ![c] = NoResult]
            /\ closedSends' = (closedSends \/ OnClosed)
            /\ UNCHANGED assigned
    /\ UNCHANGED <<state, closeReason, sessionID, lastIndex, ticker, deleting, closeRequest,
                   log, highest, keepAliveErr, keepAliveStale, watchVars, openVars, timeVars, optVars>>

\* Retry with no look at the session's state: the call is always retried
RetryIgnoresClosure(c) ==
    /\ calls[c].pc = "backoff"
    /\ calls' = [calls EXCEPT
           ![c].pc = "inflight",
           ![c].attempt = 2,
           ![c].request = LogRequest(calls[c].op, RetryHeader(calls[c]))]
    /\ closedSends' = (closedSends \/ OnClosed)
    /\ UNCHANGED results
    /\ UNCHANGED <<sessionVars, assigned, highest, keepAliveErr, keepAliveStale, watchVars,
                   openVars, timeVars, optVars>>

\* the backoff of a failed attempt is over: past session closure the
\* executor fails the call, otherwise it retries it
Retry(c) ==
    /\ calls[c].pc = "backoff"
    /\ IF IsClosed
       THEN /\ results' = [results EXCEPT
                   ![c] = LogResult(calls[c].op, Nil, SessionError)]
            /\ calls' = [calls EXCEPT ![c] = Idle]
            /\ UNCHANGED closedSends
       ELSE /\ calls' = [calls EXCEPT
                   ![c].pc = "inflight",
                   ![c].attempt = 2,
                   ![c].request =
                       LogRequest(calls[c].op, RetryHeader(calls[c]))]
            /\ closedSends' = (closedSends \/ OnClosed)
            /\ UNCHANGED results
    /\ UNCHANGED <<sessionVars, assigned, highest, keepAliveErr, keepAliveStale, watchVars, openVars, timeVars, optVars>>

\* the transport call of an attempt returns
Respond(c, reply) ==
    /\ calls[c].pc = "inflight"
    /\ reply \in RepliesTo(calls[c].op)
    /\ LET ret == HandlerReturn(reply)
           op == calls[c].op
       IN
       IF ret.err # Nil
       THEN \* transient transport failure: retry with the same header
            /\ calls' = [calls EXCEPT ![c].pc = "backoff"]
            /\ UNCHANGED <<state, closeReason, ticker, lastIndex, highest,
                           results>>
       ELSE IF ret.header.status = "SESSION_EXPIRED"
       THEN \* definitive session unknown/expired status: an Open session
            \* is forced to Closed
            /\ IF state = "Open"
               THEN /\ state' = "Closed"
                    /\ closeReason' = "expired"
                    /\ ticker' = FALSE
               ELSE UNCHANGED <<state, closeReason, ticker>>
            /\ results' = [results EXCEPT
                   ![c] = LogResult(op, Nil,
                              IF IsClosed THEN SessionError
                              ELSE "SessionExpired")]
            /\ calls' = [calls EXCEPT ![c] = Idle]
            /\ UNCHANGED <<lastIndex, highest>>
       ELSE /\ lastIndex' = RecordResponse(ret.header)
            /\ highest' = Max(highest, reply.header.index)
            /\ results' = [results EXCEPT
                   ![c] = IF IsClosed
                          THEN LogResult(op, Nil, SessionError)
                          ELSE LogResult(op, ret.response, Nil)]
            /\ calls' = [calls EXCEPT ![c] = Idle]
            /\ UNCHANGED <<state, closeReason, ticker>>
    /\ UNCHANGED <<sessionID, sequenceNumber, deleting, closeRequest, log, assigned,
                   closedSends, keepAliveErr, keepAliveStale, watchVars, openVars, timeVars, optVars>>

\* CancelCall with the error of the last failed attempt returned to a
\* caller whose call was waiting to retry
CancelCallReturnsLastError(c) ==
    /\ calls[c].pc \in {"inflight", "backoff"}
    /\ results' = [results EXCEPT
           ![c] = LogResult(calls[c].op, Nil,
                            IF calls[c].pc = "backoff" THEN "transport"
                            ELSE "Cancelled")]
    /\ calls' = [calls EXCEPT ![c] = Idle]
    /\ UNCHANGED <<sessionVars, histVars, watchVars, openVars, timeVars, optVars>>

\* the caller's deadline or cancellation fires while its call is on the wire
\* or waits to retry: the executor abandons the call and returns Cancelled
CancelCall(c) ==
    /\ calls[c].pc \in {"inflight", "backoff"}
    /\ results' = [results EXCEPT
           ![c] = LogResult(calls[c].op, Nil, "Cancelled")]
    /\ calls' = [calls EXCEPT ![c] = Idle]
    /\ UNCHANGED <<sessionVars, histVars, watchVars, openVars, timeVars, optVars>>

(* ------------------------------ watch ---------------------------------- *)
\* api.EventResponse types; "OTHER" stands for a value outside the three
\* the relay's switch names
EventTypes == {"NONE", "APPENDED", "REMOVED", "OTHER"}

\* what Recv on the server stream can produce next
StreamReplies ==
    [err : {"EOF", "transport", "cancelled"}]
    \cup [err : {Nil}, type : EventTypes]

\* recvFn of log.Watch: (response.Header, response, nil), or (nil, nil, err)
RecvReturn(reply, index) ==
    IF reply.err # Nil
    THEN [err |-> reply.err]
    ELSE [err |-> Nil, response |-> [type |-> reply.type, index |-> index]]

\* the switch of the relay: the EventType of a response
ToEventType(type) ==
    CASE type = "NONE" -> ""
      [] type = "APPENDED" -> "appended"
      [] type = "REMOVED" -> "removed"
      [] OTHER -> ""

\* the Event the relay builds from a response
ToEvent(response) ==
    [type |-> ToEventType(response.type), index |-> response.index]

\* Watch with close(ch) run before the error of DoCommandStream is returned
WatchClosesOnError(cap, opened) ==
    /\ log = "handle" /\ watch = "none"
    /\ chCap' = cap
    /\ IF IsClosed
       THEN /\ watch' = "failed"
            /\ watchErr' = SessionError
            /\ chCloses' = chCloses + 1
            /\ UNCHANGED <<sequenceNumber, assigned, closedSends, streamPc,
                           relayPc>>
       ELSE /\ sequenceNumber < MaxSeq
            /\ sequenceNumber' = SequenceAfterCommand
            /\ assigned' = Append(assigned, CommandHeader.seq)
            /\ closedSends' = (closedSends \/ OnClosed)
            /\ IF opened
               THEN /\ watch' = "open"
                    /\ streamPc' = "recv"
                    /\ relayPc' = "range"
                    /\ UNCHANGED <<watchErr, chCloses>>
               ELSE /\ watch' = "failed"
                    /\ watchErr' = "transport"
                    /\ chCloses' = chCloses + 1
                    /\ UNCHANGED <<streamPc, relayPc>>
    /\ UNCHANGED <<state, closeReason, sessionID, lastIndex, ticker, deleting,
                   closeRequest, log, callVars, highest, keepAliveErr,
                   keepAliveStale, openVars, timeVars, optVars, ctxDone, streamMsg,
                   streamClosed, received, relayMsg, ch, delivered,
                   sentAfterClose, consumed, sawClose, consumerStopped>>

\* log.Watch(ctx, ch) with a channel of capacity cap: DoCommandStream opens
\* the stream as a command; on error Watch returns it, otherwise the relay
\* goroutine is started and Watch returns nil
Watch(cap, opened) ==
    /\ log = "handle" /\ watch = "none"
    /\ chCap' = cap
    /\ IF IsClosed
       THEN /\ watch' = "failed"
            /\ watchErr' = SessionError
            /\ UNCHANGED <<sequenceNumber, assigned, closedSends, streamPc,
                           relayPc>>
       ELSE /\ sequenceNumber < MaxSeq
            /\ sequenceNumber' = SequenceAfterCommand
            /\ assigned' = Append(assigned, CommandHeader.seq)
            /\ closedSends' = (closedSends \/ OnClosed)
            /\ IF opened
               THEN /\ watch' = "open"
                    /\ streamPc' = "recv"
                    /\ relayPc' = "range"
                    /\ UNCHANGED watchErr
               ELSE /\ watch' = "failed"
                    /\ watchErr' = "transport"
                    /\ UNCHANGED <<streamPc, relayPc>>
    /\ UNCHANGED <<state, closeReason, sessionID, lastIndex, ticker, deleting, closeRequest,
                   log, callVars, highest, keepAliveErr, keepAliveStale, openVars, timeVars, optVars,
                   ctxDone, streamMsg, streamClosed, received, relayMsg, ch,
                   chCloses, delivered, sentAfterClose, consumed, sawClose,
                   consumerStopped>>

\* the consumer cancels the context of the watch
Cancel ==
    /\ watch = "open" /\ ~ctxDone
    /\ ctxDone' = TRUE
    /\ UNCHANGED <<sessionVars, callVars, histVars, openVars, timeVars, optVars, watch, watchErr,
                   streamPc, streamMsg, streamClosed, received, relayPc,
                   relayMsg, chCap, ch, chCloses, delivered, sentAfterClose,
                   consumed, sawClose, consumerStopped>>

\* the session's stream task calls recvFn: a response is handed on towards
\* the stream channel, an error (end of stream, transport error, cancelled
\* context) ends the task and closes the stream channel
StreamRecv(reply) ==
    /\ streamPc = "recv"
    /\ IF ctxDone THEN reply.err = "cancelled" ELSE reply.err # "cancelled"
    /\ reply.err = Nil => Len(received) < MaxEvents
    /\ LET ret == RecvReturn(reply, Len(received) + 1) IN
       IF ret.err # Nil
       THEN /\ streamClosed' = TRUE
            /\ streamPc' = "done"
            /\ UNCHANGED <<received, streamMsg>>
       ELSE /\ received' = Append(received, ret.response)
            /\ streamMsg' = <<ret.response>>
            /\ streamPc' = "publish"
            /\ UNCHANGED streamClosed
    /\ UNCHANGED <<sessionVars, callVars, histVars, openVars, timeVars, optVars, watch, watchErr, ctxDone,
                   relayPc, relayMsg, chCap, ch, chCloses, delivered,
                   sentAfterClose, consumed, sawClose, consumerStopped>>

\* RelayRange without the deferred close(ch): the relay leaves the loop and
\* returns
RelayRangeNoClose ==
    /\ relayPc = "range"
    /\ IF streamPc = "publish"
       THEN /\ relayMsg' = <<ToEvent(streamMsg[1])>>
            /\ relayPc' = "send"
            /\ streamMsg' = <<>>
            /\ streamPc' = "recv"
       ELSE /\ streamClosed
            /\ relayPc' = "done"
            /\ UNCHANGED <<relayMsg, streamMsg, streamPc>>
    /\ UNCHANGED <<sessionVars, callVars, histVars, openVars, timeVars, optVars, watch, watchErr, ctxDone,
                   streamClosed, received, chCap, ch, chCloses, delivered,
                   sentAfterClose, consumed, sawClose, consumerStopped>>

\* RelayRange with a receive that does not wait: with no response at hand
\* the relay leaves the loop and closes ch, the stream still being open
RelayRangeNoWait ==
    /\ relayPc = "range"
    /\ IF streamPc = "publish"
       THEN /\ relayMsg' = <<ToEvent(streamMsg[1])>>
            /\ relayPc' = "send"
            /\ streamMsg' = <<>>
            /\ streamPc' = "recv"
            /\ UNCHANGED chCloses
       ELSE /\ chCloses' = chCloses + 1
            /\ relayPc' = "done"
            /\ UNCHANGED <<relayMsg, streamMsg, streamPc>>
    /\ UNCHANGED <<sessionVars, callVars, histVars, openVars, timeVars, optVars, watch, watchErr, ctxDone,
                   streamClosed, received, chCap, ch, delivered,
                   sentAfterClose, consumed, sawClose, consumerStopped>>

\* the relay goroutine at "for event := range stream": it takes the response
\* the stream task is publishing, or, the stream channel being closed, leaves
\* the loop and runs the deferred close(ch)
RelayRange ==
    /\ relayPc = "range"
    /\ IF streamPc = "publish"
       THEN /\ relayMsg' = <<ToEvent(streamMsg[1])>>
            /\ relayPc' = "send"
            /\ streamMsg' = <<>>
            /\ streamPc' = "recv"
            /\ UNCHANGED chCloses
       ELSE /\ streamClosed
            /\ chCloses' = chCloses + 1
            /\ relayPc' = "done"
            /\ UNCHANGED <<relayMsg, streamMsg, streamPc>>
    /\ UNCHANGED <<sessionVars, callVars, histVars, openVars, timeVars, optVars, watch, watchErr, ctxDone,
                   streamClosed, received, chCap, ch, delivered,
                   sentAfterClose, consumed, sawClose, consumerStopped>>

\* RelaySend with a send that does not wait: with no room in ch the event
\* is discarded
RelaySendOrDrop ==
    /\ relayPc = "send"
    /\ IF Len(ch) < chCap
       THEN /\ ch' = Append(ch, relayMsg[1])
            /\ delivered' = Append(delivered, relayMsg[1])
            /\ sentAfterClose' = (sentAfterClose \/ chCloses > 0)
       ELSE UNCHANGED <<ch, delivered, sentAfterClose>>
    /\ relayMsg' = <<>>
    /\ relayPc' = "range"
    /\ UNCHANGED <<sessionVars, callVars, histVars, openVars, timeVars, optVars, watch, watchErr, ctxDone,
                   streamPc, streamMsg, streamClosed, received, chCap,
                   chCloses, consumed, sawClose, consumerStopped>>

\* the relay goroutine at "ch <- &Event{...}" with room in the buffer of ch
RelaySend ==
    /\ relayPc = "send"
    /\ Len(ch) < chCap
    /\ ch' = Append(ch, relayMsg[1])
    /\ delivered' = Append(delivered, relayMsg[1])
    /\ sentAfterClose' = (sentAfterClose \/ chCloses > 0)
    /\ relayMsg' = <<>>
    /\ relayPc' = "range"
    /\ UNCHANGED <<sessionVars, callVars, histVars, openVars, timeVars, optVars, watch, watchErr, ctxDone,
                   streamPc, streamMsg, streamClosed, received, chCap,
                   chCloses, consumed, sawClose, consumerStopped>>

\* the consumer receives from ch: a buffered event, or the event of a relay
\* blocked in its send (which completes the send), or the closure of ch
ConsumerReceive ==
    /\ watch = "open" /\ ~consumerStopped /\ ~sawClose
    /\ IF ch # <<>>
       THEN /\ consumed' = Append(consumed, Head(ch))
            /\ ch' = Tail(ch)
            /\ UNCHANGED <<delivered, sentAfterClose, relayMsg, relayPc,
                           sawClose>>
       ELSE IF relayPc = "send"
       THEN /\ consumed' = Append(consumed, relayMsg[1])
            /\ delivered' = Append(delivered, relayMsg[1])
            /\ sentAfterClose' = (sentAfterClose \/ chCloses > 0)
            /\ relayMsg' = <<>>
            /\ relayPc' = "range"
            /\ UNCHANGED <<ch, sawClose>>
       ELSE /\ chCloses > 0
            /\ sawClose' = TRUE
            /\ UNCHANGED <<ch, consumed, delivered, sentAfterClose, relayMsg,
                           relayPc>>
    /\ UNCHANGED <<sessionVars, callVars, histVars, openVars, timeVars, optVars, watch, watchErr, ctxDone,
                   streamPc, streamMsg, streamClosed, received, chCap,
                   chCloses, consumerStopped>>

\* the consumer stops reading ch for good
ConsumerStop ==
    /\ watch = "open" /\ ~consumerStopped /\ ~sawClose
    /\ consumerStopped' = TRUE
    /\ UNCHANGED <<sessionVars, callVars, histVars, openVars, timeVars, optVars, watch, watchErr, ctxDone,
                   streamPc, streamMsg, streamClosed, received, relayPc,
                   relayMsg, chCap, ch, chCloses, delivered, sentAfterClose,
                   consumed, sawClose>>

(* -------------------------- specifications ----------------------------- *)
\* The session specification: lifecycle, keepalive, commands, queries and
\* the opening of a watch.  The steps of the stream task, the relay and the
\* consumer read and write none of the session's variables and are left to
\* the watch specification.
Next ==
    \/ New(<<>>, 1)
    \/ \E reply \in HeaderReplies : CreateDone(reply)
    \/ \E delete \in BOOLEAN : Close(delete)
    \/ \E reply \in HeaderReplies : CloseDone(reply)
    \/ \E reply \in HeaderReplies : KeepAlive(reply)
    \/ \E c \in Callers, op \in Ops : Invoke(c, op)
    \/ \E c \in Callers : Retry(c)
    \/ \E c \in Callers, reply \in Replies : Respond(c, reply)
    \/ \E opened \in BOOLEAN : Watch(0, opened)

Spec == Init /\ [][Next]_vars

\* The watch specification starts from an Open session, as session.New
\* leaves it, and runs one watch: stream task, relay and consumer.
WatchInit ==
    /\ state = "Open" /\ closeReason = "none" /\ sessionID = 1
    /\ sequenceNumber = 0 /\ lastIndex = 0 /\ ticker = TRUE
    /\ deleting = FALSE /\ closeRequest = NoCloseRequest
    /\ log = "handle"
    /\ calls = [c \in Callers |-> Idle]
    /\ results = [c \in Callers |-> NoResult]
    /\ assigned = <<>> /\ highest = lastIndex /\ closedSends = FALSE
    /\ keepAliveErr = Nil /\ keepAliveStale = FALSE
    /\ NoWatch
    /\ name = <<>> /\ partitions = 1 /\ partition = 0
    /\ newErr = Nil /\ creates = 1
    /\ Untimed
    /\ NoOptionsApplied

WatchNext ==
    \/ \E cap \in 0..MaxChCap, opened \in BOOLEAN : Watch(cap, opened)
    \/ Cancel
    \/ \E reply \in StreamReplies : StreamRecv(reply)
    \/ RelayRange
    \/ RelaySend
    \/ ConsumerReceive
    \/ ConsumerStop

WatchSpec == WatchInit /\ [][WatchNext]_vars

\* The watch specification with the scheduling the runtime guarantees: the
\* relay goroutine and a receiving consumer are not starved, and Recv on a
\* stream whose context is cancelled returns.
LiveWatchSpec ==
    /\ WatchSpec
    /\ WF_vars(RelayRange)
    /\ WF_vars(RelaySend)
    /\ WF_vars(ConsumerReceive)
    /\ WF_vars(ctxDone /\ \E reply \in StreamReplies : StreamRecv(reply))

\* The call specification starts from an Open session and runs the callers'
\* commands and queries, with their cancellation.
CallNext ==
    \/ \E c \in Callers, op \in Ops : Invoke(c, op)
    \/ \E c \in Callers : Retry(c)
    \/ \E c \in Callers, reply \in Replies : Respond(c, reply)
    \/ \E c \in Callers : CancelCall(c)

CallSpec == WatchInit /\ [][CallNext]_vars

\* The result specification starts from an Open session; caller "a" issues
\* Appends and caller "b" Removes, and every reply is drawn for each.
ResultNext ==
    \/ Invoke("a", "Append")
    \/ Invoke("b", "Remove")
    \/ \E c \in Callers : Retry(c)
    \/ \E c \in Callers, reply \in Replies : Respond(c, reply)

ResultSpec == WatchInit /\ [][ResultNext]_vars

\* The options specification draws the environment and the argument list
\* of applyOptions and applies it.
OptionsInit ==
    /\ state = "Unopened" /\ closeReason = "none" /\ sessionID = 0
    /\ sequenceNumber = 0 /\ lastIndex = 0 /\ ticker = FALSE
    /\ deleting = FALSE /\ closeRequest = NoCloseRequest
    /\ log = "none"
    /\ calls = [c \in Callers |-> Idle]
    /\ results = [c \in Callers |-> NoResult]
    /\ assigned = <<>> /\ highest = 0 /\ closedSends = FALSE
    /\ keepAliveErr = Nil /\ keepAliveStale = FALSE
    /\ NoWatch
    /\ name = <<>> /\ partitions = 0 /\ partition = 0
    /\ newErr = Nil /\ creates = 0
    /\ Untimed
    /\ optEnv \in Scopes /\ opts \in OptionLists /\ options = NoOptions

OptionsNext == ApplyOptions

OptionsSpec == OptionsInit /\ [][OptionsNext]_vars

\* The timed specification starts from an Open session with a timeout and
\* lets time pass: the Keepalive Driver ticks, and the caller may close.
TimedInit ==
    /\ state = "Open" /\ closeReason = "none" /\ sessionID = 1
    /\ sequenceNumber = 0 /\ lastIndex = 0 /\ ticker = TRUE
    /\ deleting = FALSE /\ closeRequest = NoCloseRequest
    /\ log = "handle"
    /\ calls = [c \in Callers |-> Idle]
    /\ results = [c \in Callers |-> NoResult]
    /\ assigned = <<>> /\ highest = lastIndex /\ closedSends = FALSE
    /\ keepAliveErr = Nil /\ keepAliveStale = FALSE
    /\ NoWatch
    /\ name = <<>> /\ partitions = 1 /\ partition = 0
    /\ newErr = Nil /\ creates = 1
    /\ clock = 0 /\ lastTick = 0 /\ keepAlives = 0
    /\ timeout \in 2..MaxTimeout
    /\ interval = KeepAliveInterval(timeout)
    /\ NoOptionsApplied

TimedNext ==
    \/ Tick
    \/ \E reply \in HeaderReplies : KeepAliveTick(reply)
    \/ \E delete \in BOOLEAN : Close(delete)
    \/ \E reply \in HeaderReplies : CloseDone(reply)

TimedSpec == TimedInit /\ [][TimedNext]_vars

\* The opening specification: New with every name and number of partitions,
\* and the create call.
OpenNext ==
    \/ \E n \in Names, count \in 0..MaxPartitions : New(n, count)
    \/ \E reply \in HeaderReplies : CreateDone(reply)

OpenSpec == Init /\ [][OpenNext]_vars

(* ------------------------------ claims --------------------------------- *)
IsCommand(call) == call.pc # "idle" /\ SessionCall(call.op) = "DoCommand"
IsQuery(call) == call.pc # "idle" /\ SessionCall(call.op) = "DoQuery"

\* C1: the sequence numbers the commands of a session take are 1, 2, 3, ...
\* in the order they are taken, with no gap and no repetition; the request
\* of every attempt of a command, the first and each retry, carries the
\* sequence number the command took, and no two commands in progress carry
\* the same one.
SequenceGapless ==
    /\ \A i \in 1..Len(assigned) : assigned[i] = i
    /\ \A c \in Callers :
         IsCommand(calls[c]) =>
           /\ calls[c].firstSeq \in 1..Len(assigned)
           /\ calls[c].request.header.seq = calls[c].firstSeq
    /\ \A c, d \in Callers :
         (c # d /\ IsCommand(calls[c]) /\ IsCommand(calls[d])) =>
           calls[c].request.header.seq # calls[d].request.header.seq

\* a command that took sequence number 1 is on the wire again after a
\* transport failure, carrying 1, while a second command carries 2
RetryCarriesSameSequence ==
    \E c, d \in Callers :
      /\ calls[c].pc = "inflight" /\ calls[c].op = "Append"
      /\ calls[c].attempt = 2 /\ calls[c].request.header.seq = 1
      /\ calls[d].pc = "inflight" /\ calls[d].op = "Append"
      /\ calls[d].request.header.seq = 2

\* C2: once Close has completed, no request is handed to the transport, a
\* log operation started by a caller returns at once with SessionClosed and
\* leaves the caller idle, and a Watch fails with SessionClosed.
CloseCompleted == state = "Closed" /\ closeReason = "closed"

ClosedSessionRejects ==
    [][CloseCompleted =>
         /\ ~closedSends'
         /\ \A c \in Callers :
              calls[c].pc = "idle" =>
                /\ calls'[c].pc = "idle"
                /\ results'[c] # results[c] =>
                     results'[c] = Failed("SessionClosed")
         /\ watch = "none" =>
              \/ watch' = "none"
              \/ watch' = "failed" /\ watchErr' = "SessionClosed"]_vars

\* after Close completed, an operation and a Watch have both been refused
\* with SessionClosed and nothing went out
RejectedAfterClose ==
    /\ CloseCompleted /\ ~closedSends
    /\ \E c \in Callers :
         calls[c].pc = "idle" /\ results[c] = Failed("SessionClosed")
    /\ watch = "failed" /\ watchErr = "SessionClosed"

\* the EventType the relay is to give an event of each named response type
NamedEventType(type) ==
    CASE type = "NONE" -> ""
      [] type = "APPENDED" -> "appended"
      [] type = "REMOVED" -> "removed"

\* event e is the response r, relayed
Relayed(e, r) ==
    /\ e.index = r.index
    /\ r.type # "OTHER" => e.type = NamedEventType(r.type)

\* C3: at every moment the events sent on the consumer's channel are, in
\* order, the first of the responses received from the stream; what the
\* consumer has received and what ch buffers are those events in that order;
\* and every response received and not yet sent on ch is held by the stream
\* task or by the relay blocked in its send, one each at most: none is lost.
RelayInOrder ==
    /\ Len(delivered) <= Len(received)
    /\ \A i \in 1..Len(delivered) : Relayed(delivered[i], received[i])
    /\ delivered = consumed \o ch
    /\ Len(ch) <= chCap
    /\ Len(received) = Len(delivered) + Len(relayMsg) + Len(streamMsg)
    /\ Len(relayMsg) = (IF relayPc = "send" THEN 1 ELSE 0)
    /\ Len(streamMsg) = (IF streamPc = "publish" THEN 1 ELSE 0)
    /\ relayPc = "send" =>
         Relayed(relayMsg[1], received[Len(delivered) + 1])

\* a slow consumer: an event was delivered, the relay is blocked sending the
\* next one on a full channel, and the stream task holds a third
RelayBlockedOnSlowConsumer ==
    /\ Len(consumed) >= 1
    /\ relayPc = "send" /\ Len(ch) = chCap
    /\ streamPc = "publish"
    /\ Len(received) = 3

\* C4: close(ch) runs at most once; when it has run, the stream channel was
\* closed, the relay is done and every response received was sent on ch; no
\* event is sent on ch after it; a consumer that saw ch closed has received
\* every event.
ClosedOnceAfterStreamEnd ==
    /\ chCloses <= 1
    /\ ~sentAfterClose
    /\ chCloses = 1 =>
         /\ streamClosed /\ streamPc = "done" /\ relayPc = "done"
         /\ Len(delivered) = Len(received)
    /\ relayPc = "done" => chCloses = 1
    /\ sawClose => chCloses = 1 /\ consumed = delivered

\* three events were pushed, the stream ended, and the consumer received the
\* three events, in order, and then the closure of ch
ThreeEventsThenClosed ==
    /\ Len(received) = 3 /\ streamClosed /\ ~ctxDone
    /\ sawClose /\ chCloses = 1
    /\ Len(consumed) = 3
    /\ \A i \in 1..3 : consumed[i].index = i

\* the underlying stream of the watch has terminated: Recv returned an error
\* (end of stream, transport error) or the context was cancelled
StreamTerminated == watch = "open" /\ (streamClosed \/ ctxDone)

\* C5: whenever the underlying stream of a watch has terminated, a consumer
\* that keeps receiving from ch eventually observes ch closed.
StreamEndClosesChannel ==
    [](StreamTerminated => <>(sawClose \/ consumerStopped))

\* the context was cancelled while an event was on its way, and the consumer,
\* still receiving, got the event and then the closure of ch
ClosureSeenAfterCancel ==
    /\ ctxDone /\ sawClose /\ ~consumerStopped
    /\ Len(consumed) >= 1 /\ Len(consumed) = Len(received)

\* C6: once the consumer has cancelled the watch context, ch is eventually
\* closed, whether or not the consumer still reads ch.
CancelClosesChannel == [](ctxDone => <>(chCloses = 1))

\* the context is cancelled and the stream has ended, the consumer has stopped
\* reading ch, and the relay is still in  ch <- &Event{...}  with ch open
RelayStuckAfterCancel ==
    /\ ctxDone /\ streamClosed /\ consumerStopped
    /\ relayPc = "send" /\ Len(ch) = chCap /\ chCloses = 0

\* C7: a step of a Get (its start, a failed attempt, its retry, its return,
\* successful or failed) leaves the session's sequence counter, and the
\* sequence numbers taken so far, as they were.
QueryKeepsSequence ==
    [][\A c \in Callers :
         (calls'[c] # calls[c] /\ (calls[c].op = "Get" \/ calls'[c].op = "Get"))
           => /\ sequenceNumber' = sequenceNumber
              /\ assigned' = assigned]_vars

\* after a first command completed, a Get is on its second attempt while the
\* next command carries sequence number 2: the Get took none
RetriedQueryBetweenCommands ==
    \E c, d \in Callers :
      /\ calls[c].pc = "inflight" /\ calls[c].op = "Get"
      /\ calls[c].attempt = 2
      /\ calls[d].pc = "inflight" /\ calls[d].op = "Append"
      /\ calls[d].request.header.seq = 2
      /\ sequenceNumber = 2 /\ assigned = <<1, 2>>

\* C8: the last observed index never decreases and is the highest index of
\* the responses received so far; the index in the request header of a query
\* is at least the highest index received before the query started.
LastIndexIsHighest ==
    [][/\ lastIndex' >= lastIndex
       /\ lastIndex' = highest'
       /\ \A c \in Callers :
            (calls'[c].pc # "idle" /\ calls'[c].op = "Get") =>
              calls'[c].request.header.index >= calls'[c].seen]_vars

\* index 1 was observed, a later response carried index 0, and a query then
\* started: its header carries 1
QueryCarriesHighestAfterLower ==
    \E c, d \in Callers :
      /\ results[d] = Returned(Entry(0), Nil)
      /\ lastIndex = MaxIndex
      /\ calls[c].pc = "inflight" /\ calls[c].op = "Get"
      /\ calls[c].seen = MaxIndex
      /\ calls[c].request.header.index = MaxIndex

\* C9: a definitive session-expired answer to a command or query on an Open
\* session closes the session and fails that operation with SessionExpired;
\* from then on the session stays Closed, no request is handed to the
\* transport, and every operation that returns, pending or new, returns
\* SessionExpired.
Expired == state = "Closed" /\ closeReason = "expired"

ExpiredReplies == {r \in Replies : r.err = Nil /\ r.header.status = "SESSION_EXPIRED"}

ExpiredSessionFails ==
    [][/\ \A c \in Callers :
            (state = "Open" /\ \E reply \in ExpiredReplies : Respond(c, reply))
              => Expired' /\ results'[c] = Failed("SessionExpired")
       /\ Expired =>
            /\ Expired'
            /\ ~closedSends'
            /\ \A c \in Callers :
                 /\ calls'[c].pc = "inflight" => calls'[c] = calls[c]
                 /\ results'[c] # results[c] =>
                      results'[c] = Failed("SessionExpired")
            /\ watch' # watch =>
                 watch' = "failed" /\ watchErr' = "SessionExpired"]_vars

\* a query was answered session-expired before any command was issued; it
\* and the other caller's operation both returned SessionExpired, no sequence
\* number was taken and nothing went out on the closed session
ExpiredThenCommandFails ==
    /\ Expired /\ ~closedSends
    /\ sequenceNumber = 0
    /\ \A c \in Callers :
         calls[c].pc = "idle" /\ results[c] = Failed("SessionExpired")

\* C10: a keepalive call that fails (a transport error, or an unsuccessful
\* header) leaves the session Open, the Keepalive Driver running and the
\* calls in progress untouched, so commands and queries are still accepted.
FailedHeaderReplies ==
    {r \in HeaderReplies : r.err # Nil \/ r.header.status # "OK"}

FailedKeepAliveKeepsOpen ==
    [][(\E reply \in FailedHeaderReplies : KeepAlive(reply)) =>
         /\ state = "Open" /\ state' = "Open"
         /\ ticker' /\ closeReason' = closeReason
         /\ sequenceNumber' = sequenceNumber /\ lastIndex' = lastIndex
         /\ calls' = calls /\ results' = results]_vars

\* the last keepalive failed and the session is Open: a command completed
\* and another operation is in progress
OpenAfterFailedKeepAlive ==
    /\ keepAliveErr = "failed" /\ state = "Open" /\ ticker
    /\ \E c, d \in Callers :
         /\ results[c].done /\ results[c].err = Nil
         /\ calls[d].pc = "inflight"

\* C11: while the session is Open and its driver runs, a keepalive call has
\* been issued for every interval that elapsed, with no command or query
\* needed; the interval, and so the time since the last tick, is strictly
\* less than the session timeout; and with a timeout of 60 s (6 units, the
\* interval then being 20 s) at least 4 keepalive calls are issued by 90 s.
KeepAlivesBeforeTimeout ==
    (state = "Open" /\ ticker) =>
      /\ interval >= 1 /\ interval < timeout
      /\ clock - lastTick <= interval
      /\ clock - lastTick < timeout
      /\ keepAlives = lastTick \div interval
      /\ keepAlives >= (clock \div interval) - 1
      /\ (timeout = 6 /\ clock >= 9) => keepAlives >= 4

\* 90 s after a session with timeout 60 s opened, with no traffic and the
\* last keepalive failed, 4 keepalive calls were issued and it is Open
FourKeepAlivesInNinety ==
    /\ state = "Open" /\ ticker
    /\ timeout = 6 /\ clock = 9 /\ keepAlives = 4
    /\ keepAliveErr = "failed"
    /\ sequenceNumber = 0 /\ \A c \in Callers : calls[c].pc = "idle"

\* responses that arrive, on a live session, with an application-level
\* failure status in their body
AppFailureReplies ==
    {r \in Replies : /\ r.err = Nil /\ r.header.status = "OK"
                     /\ r.status \in {"PRECONDITION_FAILED", "WRITE_LOCK"}}

AppFailureError(status) ==
    IF status = "PRECONDITION_FAILED" THEN "write condition failed"
    ELSE "write lock failed"

\* C12: a response with an application-level failure status ends the
\* operation on an Open session: the caller gets a nil entry and the error
\* of that status, no further transport call is made for it, and the session
\* stays Open; a call waits to retry only after a transport error.
AppFailureNotRetried ==
    [][\A c \in Callers :
         /\ \A reply \in AppFailureReplies :
              (state = "Open" /\ Respond(c, reply)) =>
                /\ calls'[c] = Idle
                /\ results'[c] =
                     Returned(NilEntry, AppFailureError(reply.status))
                /\ state' = "Open" /\ ticker' = ticker
                /\ sequenceNumber' = sequenceNumber
         /\ (calls[c].pc # "backoff" /\ calls'[c].pc = "backoff") =>
              \E reply \in Replies :
                reply.err = "transport" /\ Respond(c, reply)]_vars

\* two Appends were answered, at their first attempt, precondition failed
\* and write lock failed: both callers hold the error and the session is Open
BothAppFailuresSurfaced ==
    /\ state = "Open" /\ sequenceNumber = 2
    /\ results["a"] = Returned(NilEntry, "write condition failed")
    /\ results["b"] = Returned(NilEntry, "write lock failed")
    /\ \A c \in Callers : calls[c].pc = "idle"

CreateFailureSurfaced ==
    [][/\ \A reply \in FailedHeaderReplies :
            CreateDone(reply) =>
              /\ state' = "Unopened" /\ sessionID' = 0 /\ ~ticker'
              /\ log' = "failed" /\ newErr' # Nil
              /\ creates' = 1
       /\ log = "failed" =>
            /\ state' = "Unopened" /\ ~ticker' /\ log' = "failed"
            /\ creates' = creates
            /\ calls' = calls /\ keepAliveErr' = keepAliveErr]_vars

\* the create call failed with a transport error: no Log, session Unopened
CreateFailed ==
    /\ log = "failed" /\ newErr = "transport"
    /\ state = "Unopened" /\ ~ticker /\ creates = 1

\* the steps of the lifecycle as the claim lists them
ChainSteps ==
    {<<"Unopened", "Opening">>, <<"Opening", "Open">>,
     <<"Opening", "Unopened">>, <<"Open", "Closing">>,
     <<"Closing", "Closed">>, <<"Open", "Deleted">>,
     <<"Closing", "Deleted">>}

\* Closed and Deleted are terminal: the state, the identifier and the stopped
\* driver stay as they are
TerminalStays ==
    state \in {"Closed", "Deleted"} =>
      state' = state /\ sessionID' = sessionID /\ ~ticker'

CloseEndsClosed ==
    [][/\ \A delete \in BOOLEAN :
            Close(delete) =>
              /\ state = "Open" /\ state' = "Closing" /\ ~ticker'
              /\ closeRequest'.sent /\ closeRequest'.delete = delete
       /\ \A reply \in HeaderReplies :
            CloseDone(reply) =>
              /\ closeRequest.sent /\ closeRequest.delete = deleting
              /\ state' = (IF closeRequest.delete THEN "Deleted" ELSE "Closed")
       /\ state \in {"Closing", "Closed", "Deleted"} =>
            /\ ~ticker'
            /\ ~ \E reply \in HeaderReplies : KeepAlive(reply)]_vars

\* a delete request completed on a session whose driver had been ticking:
\* the session is Deleted, the call carried Delete, the driver is stopped
DeleteCompleted ==
    /\ state = "Deleted" /\ closeRequest = CloseRequest(TRUE)
    /\ ~ticker /\ keepAliveErr = "failed"

CancelAbandons ==
    [][\A c \in Callers :
         /\ CancelCall(c) =>
              /\ calls'[c] = Idle
              /\ results'[c] = Failed("Cancelled")
              /\ state' = state /\ ticker' = ticker
              /\ sequenceNumber' = sequenceNumber /\ lastIndex' = lastIndex
         /\ (calls[c].pc = "idle" /\ calls'[c].pc # "idle") =>
              \E op \in Ops : Invoke(c, op)
         /\ (calls[c].pc = "idle" /\ results'[c] # results[c]) =>
              \E op \in Ops : Invoke(c, op)]_vars

\* a command that waited to retry and a query on the wire were both
\* cancelled: both callers hold Cancelled and the session is Open
BothCancelled ==
    /\ state = "Open" /\ sequenceNumber = 1
    /\ \A c \in Callers :
         calls[c].pc = "idle" /\ results[c] = Failed("Cancelled")

\* responses that arrive on a live session with a successful header
ArrivedReplies == {r \in Replies : r.err = Nil /\ r.header.status = "OK"}

\* C20: for every response to an Append, status OK gives an entry whose
\* version is the response header index and no error, PRECONDITION_FAILED
\* and WRITE_LOCK give a nil entry and an error, any other status gives an
\* entry with the response's previous version and no error; an Append never
\* returns a nil entry with a nil error, while a Remove does for a status
\* other than the three.
AppendResultByStatus ==
    [][/\ \A reply \in ArrivedReplies :
            (state = "Open" /\ Respond("a", reply)) =>
              LET res == results'["a"] IN
                /\ res.done
                /\ reply.status = "OK" =>
                     /\ ~res.entry.isNil /\ res.err = Nil
                     /\ res.entry.version = reply.header.index
                /\ reply.status \in {"PRECONDITION_FAILED", "WRITE_LOCK"} =>
                     res.entry.isNil /\ res.err # Nil
                /\ reply.status = "NOOP" =>
                     /\ ~res.entry.isNil /\ res.err = Nil
                     /\ res.entry.version = reply.version
       /\ results'["a"].done =>
            ~(results'["a"].entry.isNil /\ results'["a"].err = Nil)
       /\ \A reply \in ArrivedReplies :
            (state = "Open" /\ reply.status = "NOOP" /\ Respond("b", reply))
              => results'["b"] = Returned(NilEntry, Nil)]_vars

\* an Append answered with another status, index 0 and previous version 1
\* returned an entry of version 1, and a Remove answered with another status
\* returned (nil, nil)
AppendEntryRemoveNil ==
    /\ results["a"] = Returned(Entry(1), Nil)
    /\ results["b"] = Returned(NilEntry, Nil)
    /\ highest = 0 /\ state = "Open"

\* C21: a Watch whose stream could not be opened returned the error, started
\* neither stream task nor relay, and its channel was neither written to nor
\* closed; a channel that was written to or closed, and a relay that exists,
\* belong to a Watch that returned nil.
FailedWatchLeavesChannel ==
    /\ watch = "failed" =>
         /\ watchErr # Nil
         /\ relayPc = "none" /\ streamPc = "none"
         /\ chCloses = 0 /\ ch = <<>> /\ delivered = <<>>
         /\ consumed = <<>> /\ ~sawClose
    /\ (chCloses > 0 \/ delivered # <<>> \/ relayPc # "none") =>
         watch = "open" /\ watchErr = Nil

\* opening the stream of a Watch on a buffered channel failed with a
\* transport error: the stream command took its sequence number, Watch
\* returned the error and the channel is untouched
WatchFailedToOpen ==
    /\ watch = "failed" /\ watchErr = "transport"
    /\ chCap = MaxChCap /\ sequenceNumber = 1
    /\ chCloses = 0 /\ relayPc = "none"

\* C22: before the create call has succeeded there is no Log, no Keepalive
\* Driver and no identifier, and no command, query, keepalive or stream call
\* was made; a Log exists only for a session that reached Open; every request
\* in progress, and the request a keepalive tick builds, carries the session
\* identifier, which is set by the create step and never changes afterwards.
NothingBeforeCreate ==
    [][/\ state' \in {"Unopened", "Opening"} =>
            /\ log' # "handle" /\ ~ticker' /\ sessionID' = 0
            /\ \A c \in Callers :
                 calls'[c] = Idle /\ results'[c] = NoResult
            /\ watch' = "none" /\ sequenceNumber' = 0 /\ assigned' = <<>>
            /\ keepAliveErr' = Nil
       /\ log' = "handle" =>
            /\ state' \in {"Open", "Closing", "Closed", "Deleted"}
            /\ sessionID' # 0
       /\ ticker' =>
            /\ state' = "Open" /\ log' = "handle"
            /\ KeepAliveRequest(KeepAliveHeader).header.sessionID' = sessionID'
       /\ \A c \in Callers :
            calls'[c].pc # "idle" =>
              calls'[c].request.header.sessionID = sessionID'
       /\ sessionID # 0 => sessionID' = sessionID
       /\ sessionID' # sessionID =>
            \E reply \in HeaderReplies : CreateDone(reply)]_vars

\* on an Open session a command is being retried, a query is on the wire,
\* both carrying the session identifier, a keepalive was made and a stream
\* was opened
RequestsCarryIdentifier ==
    \E c, d \in Callers :
      /\ state = "Open" /\ sessionID = 1
      /\ calls[c].op = "Append" /\ calls[c].attempt = 2
      /\ calls[c].request.header.sessionID = 1
      /\ calls[d].op = "Get" /\ calls[d].pc = "inflight"
      /\ calls[d].request.header.sessionID = 1
      /\ keepAliveErr = "failed" /\ watch = "open"

\* the positions of the options of a kind in the argument list, and the
\* last position of a non-empty set of positions
OptionsAt(kind) == {i \in 1..Len(opts) : opts[i].kind = kind}
LastOf(positions) == CHOOSE m \in positions : \A i \in positions : i <= m

\* C23: applyOptions returns, for the scope, the one of the last WithScope
\* given and the environment's scope if none was given, and for the session
\* timeout the one of the last WithSessionTimeout given and one minute if
\* none was given; and applying one option sets its own field and leaves
\* the other as it was.
OptionsResolved ==
    /\ options.done =>
         /\ options.scope =
              (IF OptionsAt("scopeOption") = {} THEN optEnv
               ELSE opts[LastOf(OptionsAt("scopeOption"))].scope)
         /\ options.sessionTimeout =
              (IF OptionsAt("sessionTimeoutOption") = {} THEN 60
               ELSE opts[LastOf(OptionsAt("sessionTimeoutOption"))].timeout)
    /\ \A scope \in Scopes, t \in Durations, o \in Options :
         LET before == [scope |-> scope, sessionTimeout |-> t]
             after == OptionApply(o, before)
         IN IF o.kind = "scopeOption"
            THEN after.scope = o.scope /\ after.sessionTimeout = t
            ELSE after.sessionTimeout = o.timeout /\ after.scope = scope

\* two session timeouts with a scope between them were given: the result
\* has the second timeout and the scope given, not the environment's
LastOptionWins ==
    /\ options.done
    /\ optEnv = "y"
    /\ opts = <<WithSessionTimeout(90), WithScope("x"), WithSessionTimeout(0)>>
    /\ options.scope = "x" /\ options.sessionTimeout = 0

====
